---- MODULE Spec2Model ----
(***************************************************************************)
(* Model of fidget's standard library of shapes and transforms             *)
(* (fidget/src/shapes/mod.rs): every shape record converts into a Tree, a  *)
(* symbolic expression over the axes X, Y, Z.                              *)
(*                                                                         *)
(* Scalars are modelled as integers, with the two infinities and NaN as    *)
(* sentinels; sqrt rounds down to the integer grid, as a floating-point    *)
(* sqrt rounds to its own grid.  Trees are records tagged by their opcode. *)
(***************************************************************************)
EXTENDS Integers, Sequences, FiniteSets, TLC

(***************************************************************************)
(* Bounds of the model.                                                    *)
(***************************************************************************)
MaxCoord == 2        \* evaluation points of the primitives lie in (-MaxCoord..MaxCoord)^3
MaxHalf == 2         \* half sizes are drawn from 1..MaxHalf
MaxRadius == 2       \* radii are drawn from 1..MaxRadius
MaxInputs == 4       \* Union / Intersection take up to MaxInputs inputs
MaxVal == 1          \* points at which the CSG combinators are evaluated: (-MaxVal..MaxVal)^3
MaxNest == 2         \* combinators are nested at most MaxNest deep
MaxThick == 2        \* Round / Onion offsets are drawn from -MaxThick..MaxThick
MaxHalfCell == 2     \* Repeat cells are 0 or 2*h, h in 1..MaxHalfCell
MaxRep == 2          \* points at which repeated shapes are evaluated: (-MaxRep..MaxRep)^3
MaxShift == 1        \* a repeated shape is compared across k cells, k in -MaxShift..MaxShift
MaxStack == 6        \* cap on the depth of the modelled call stack

(***************************************************************************)
(* Scalars: f64::INFINITY, its negation, and NaN.                          *)
(***************************************************************************)
INF == 1000000
NINF == 0 - INF
NaN == INF + INF

IsFinite(a) == NINF < a /\ a < INF

NumNeg(a) == IF a = NaN THEN NaN ELSE 0 - a

NumAdd(a, b) ==
    IF a = NaN \/ b = NaN THEN NaN
    ELSE IF a = INF THEN (IF b = NINF THEN NaN ELSE INF)
    ELSE IF a = NINF THEN (IF b = INF THEN NaN ELSE NINF)
    ELSE IF b = INF \/ b = NINF THEN b
    ELSE a + b

NumSub(a, b) == NumAdd(a, NumNeg(b))

NumMul(a, b) ==
    IF a = NaN \/ b = NaN THEN NaN
    ELSE IF IsFinite(a) /\ IsFinite(b) THEN a * b
    ELSE IF a = 0 \/ b = 0 THEN NaN
    ELSE IF (a > 0) = (b > 0) THEN INF ELSE NINF

NumAbs(a) == IF a = NaN THEN NaN ELSE IF a < 0 THEN 0 - a ELSE a

NumSquare(a) == NumMul(a, a)

RECURSIVE ISqrt(_, _)
ISqrt(n, r) == IF (r + 1) * (r + 1) > n THEN r ELSE ISqrt(n, r + 1)

NumSqrt(a) ==
    IF a = NaN \/ a < 0 THEN NaN
    ELSE IF a = INF THEN INF
    ELSE ISqrt(a, 0)

NumMin(a, b) == IF a = NaN \/ b = NaN THEN NaN ELSE IF a < b THEN a ELSE b

NumMax(a, b) == IF a = NaN \/ b = NaN THEN NaN ELSE IF a > b THEN a ELSE b

\* modulo: result in [0, p) for a positive period p; undefined (NaN) for p = 0
NumMod(a, p) ==
    IF a = NaN \/ p = NaN \/ ~IsFinite(a) \/ p = 0 THEN NaN
    ELSE IF ~IsFinite(p) THEN (IF a >= 0 THEN a ELSE NaN)
    ELSE IF p > 0 THEN a % p
    ELSE a % (0 - p)

(***************************************************************************)
(* The expression algebra: Tree constructors.                              *)
(***************************************************************************)
X == [op |-> "x"]
Y == [op |-> "y"]
Z == [op |-> "z"]
axes == <<X, Y, Z>>
constant(c) == [op |-> "const", v |-> c]
neg(a) == [op |-> "neg", a |-> a]
abs(a) == [op |-> "abs", a |-> a]
square(a) == [op |-> "square", a |-> a]
sqrt(a) == [op |-> "sqrt", a |-> a]
add(a, b) == [op |-> "add", a |-> a, b |-> b]
sub(a, b) == [op |-> "sub", a |-> a, b |-> b]
min(a, b) == [op |-> "min", a |-> a, b |-> b]
max(a, b) == [op |-> "max", a |-> a, b |-> b]
modulo(a, b) == [op |-> "mod", a |-> a, b |-> b]
remap_xyz(t, tx, ty, tz) == [op |-> "remap", a |-> t, x |-> tx, y |-> ty, z |-> tz]
remap_affine(t, m) == [op |-> "affine", a |-> t, m |-> m]

\* No conversion of the library builds these two: the state before any
\* conversion, and the outcome a fallible conversion would report.
NoTree == [op |-> "none"]
Error == [op |-> "error"]
IsTree(t) == t.op \notin {"none", "error"}
IsError(t) == t.op = "error"

\* The homogeneous matrix of a translation: rows of the linear part, then the offset.
Translation3(tx, ty, tz) == <<<<1, 0, 0, tx>>, <<0, 1, 0, ty>>, <<0, 0, 1, tz>>>>

AffineRow(row, p) ==
    NumAdd(NumAdd(NumAdd(NumMul(row[1], p[1]), NumMul(row[2], p[2])),
                  NumMul(row[3], p[3])), row[4])

AffineImage(m, p) == <<AffineRow(m[1], p), AffineRow(m[2], p), AffineRow(m[3], p)>>

(***************************************************************************)
(* Evaluation of a tree at a point p = <<x, y, z>>.                        *)
(***************************************************************************)
RECURSIVE Eval(_, _)
Eval(t, p) ==
    CASE t.op = "x" -> p[1]
      [] t.op = "y" -> p[2]
      [] t.op = "z" -> p[3]
      [] t.op = "const" -> t.v
      [] t.op = "neg" -> NumNeg(Eval(t.a, p))
      [] t.op = "abs" -> NumAbs(Eval(t.a, p))
      [] t.op = "square" -> NumSquare(Eval(t.a, p))
      [] t.op = "sqrt" -> NumSqrt(Eval(t.a, p))
      [] t.op = "add" -> NumAdd(Eval(t.a, p), Eval(t.b, p))
      [] t.op = "sub" -> NumSub(Eval(t.a, p), Eval(t.b, p))
      [] t.op = "min" -> NumMin(Eval(t.a, p), Eval(t.b, p))
      [] t.op = "max" -> NumMax(Eval(t.a, p), Eval(t.b, p))
      [] t.op = "mod" -> NumMod(Eval(t.a, p), Eval(t.b, p))
      [] t.op = "remap" -> Eval(t.a, <<Eval(t.x, p), Eval(t.y, p), Eval(t.z, p)>>)
      [] t.op = "affine" -> Eval(t.a, AffineImage(t.m, p))
      [] OTHER -> NaN

(***************************************************************************)
(* Vector helpers and shape records.                                       *)
(***************************************************************************)
Vec2(x, y) == [x |-> x, y |-> y]
Vec3(x, y, z) == [x |-> x, y |-> y, z |-> z]

Circle(c, r) == [kind |-> "Circle", center |-> c, radius |-> r]
Rect(c, h) == [kind |-> "Rect", center |-> c, half_size |-> h]
Sphere(c, r) == [kind |-> "Sphere", center |-> c, radius |-> r]
Cuboid(c, h) == [kind |-> "Cuboid", center |-> c, half_size |-> h]
Cylinder(c, r, hh) == [kind |-> "Cylinder", center |-> c, radius |-> r, half_height |-> hh]
Torus(c, R, r) == [kind |-> "Torus", center |-> c, major_radius |-> R, tube_radius |-> r]
Union(s) == [kind |-> "Union", input |-> s]
Intersection(s) == [kind |-> "Intersection", input |-> s]
Inverse(t) == [kind |-> "Inverse", shape |-> t]
Difference(t, c) == [kind |-> "Difference", shape |-> t, cutout |-> c]
Round(t, r) == [kind |-> "Round", shape |-> t, radius |-> r]
Onion(t, th) == [kind |-> "Onion", shape |-> t, thickness |-> th]
Repeat(t, c) == [kind |-> "Repeat", shape |-> t, cell |-> c]
Move(t, o) == [kind |-> "Move", shape |-> t, offset |-> o]

(***************************************************************************)
(* 2D and 3D primitives.                                                   *)
(***************************************************************************)
FromCircle(v) ==
    sub(sqrt(add(square(sub(X, constant(v.center.x))),
                 square(sub(Y, constant(v.center.y))))),
        constant(v.radius))

FromRect_noinside(v) ==
    LET dx == sub(abs(sub(X, constant(v.center.x))), constant(v.half_size.x))
        dy == sub(abs(sub(Y, constant(v.center.y))), constant(v.half_size.y))
        ox == max(dx, constant(0))
        oy == max(dy, constant(0))
    IN  sqrt(add(square(ox), square(oy)))

FromRect(v) ==
    LET dx == sub(abs(sub(X, constant(v.center.x))), constant(v.half_size.x))
        dy == sub(abs(sub(Y, constant(v.center.y))), constant(v.half_size.y))
        ox == max(dx, constant(0))
        oy == max(dy, constant(0))
    IN  add(sqrt(add(square(ox), square(oy))), min(max(dx, dy), constant(0)))

FromSphere(v) ==
    sub(sqrt(add(add(square(sub(X, constant(v.center.x))),
                     square(sub(Y, constant(v.center.y)))),
                 square(sub(Z, constant(v.center.z))))),
        constant(v.radius))

FromCuboid(v) ==
    LET dx == sub(abs(sub(X, constant(v.center.x))), constant(v.half_size.x))
        dy == sub(abs(sub(Y, constant(v.center.y))), constant(v.half_size.y))
        dz == sub(abs(sub(Z, constant(v.center.z))), constant(v.half_size.z))
        ox == max(dx, constant(0))
        oy == max(dy, constant(0))
        oz == max(dz, constant(0))
    IN  add(sqrt(add(add(square(ox), square(oy)), square(oz))),
            min(max(dx, max(dy, dz)), constant(0)))

FromCylinder(v) ==
    LET px == sub(X, constant(v.center.x))
        py == sub(Y, constant(v.center.y))
        pz == sub(Z, constant(v.center.z))
        dx == sub(sqrt(add(square(px), square(pz))), constant(v.radius))
        dy == sub(abs(py), constant(v.half_height))
        ox == max(dx, constant(0))
        oy == max(dy, constant(0))
    IN  add(sqrt(add(square(ox), square(oy))), min(max(dx, dy), constant(0)))

FromTorus(v) ==
    LET px == sub(X, constant(v.center.x))
        py == sub(Y, constant(v.center.y))
        pz == sub(Z, constant(v.center.z))
        q == add(square(sub(sqrt(add(square(px), square(pz))),
                            constant(v.major_radius))),
                 square(py))
    IN  sub(sqrt(q), constant(v.tube_radius))

(***************************************************************************)
(* CSG operations.                                                         *)
(***************************************************************************)
Mid_low(n) == (n - 1) \div 2

\* the split index n / 2 of recurse
Mid(n) == n \div 2

RECURSIVE UnionRecurse(_)
UnionRecurse(s) ==
    IF Len(s) = 1 THEN s[1]
    ELSE LET n == Len(s)
         IN  min(UnionRecurse(SubSeq(s, 1, Mid(n))),
                 UnionRecurse(SubSeq(s, Mid(n) + 1, n)))

RECURSIVE IntersectionRecurse(_)
IntersectionRecurse(s) ==
    IF Len(s) = 1 THEN s[1]
    ELSE LET n == Len(s)
         IN  max(IntersectionRecurse(SubSeq(s, 1, Mid(n))),
                 IntersectionRecurse(SubSeq(s, Mid(n) + 1, n)))

RECURSIVE FoldMin(_)
FoldMin(s) ==
    IF Len(s) = 1 THEN s[1]
    ELSE min(FoldMin(SubSeq(s, 1, Len(s) - 1)), s[Len(s)])

FromUnion_fold(v) ==
    IF v.input = <<>> THEN constant(INF) ELSE FoldMin(v.input)

FromUnion_neginf(v) ==
    IF v.input = <<>> THEN constant(NINF) ELSE UnionRecurse(v.input)

FromUnion_droplast(v) ==
    IF v.input = <<>> THEN constant(INF)
    ELSE IF Len(v.input) = 1 THEN v.input[1]
    ELSE UnionRecurse(SubSeq(v.input, 1, Len(v.input) - 1))

FromUnion(v) ==
    IF v.input = <<>> THEN constant(INF) ELSE UnionRecurse(v.input)

FromIntersection(v) ==
    IF v.input = <<>> THEN constant(NINF) ELSE IntersectionRecurse(v.input)

FromInverse_id(v) == v.shape

FromInverse(v) == neg(v.shape)

FromDifference(v) == max(v.shape, neg(v.cutout))

(***************************************************************************)
(* Morphological operations.                                               *)
(***************************************************************************)
FromRound(v) == sub(v.shape, constant(v.radius))

FromOnion_noabs(v) == sub(v.shape, constant(v.thickness))

FromOnion(v) == sub(abs(v.shape), constant(v.thickness))

\* cell * 0.5; cells are drawn from even numbers, so the half is exact
Half(c) == c \div 2

FromRepeat_uncentred(v) ==
    remap_xyz(v.shape,
              modulo(X, constant(v.cell.x)),
              modulo(Y, constant(v.cell.y)),
              modulo(Z, constant(v.cell.z)))

FromRepeat_fallback(v) ==
    LET hx == Half(v.cell.x)
        hy == Half(v.cell.y)
        hz == Half(v.cell.z)
        px == IF v.cell.x = 0 THEN X
              ELSE sub(modulo(add(X, constant(hx)), constant(v.cell.x)), constant(hx))
        py == IF v.cell.y = 0 THEN Y
              ELSE sub(modulo(add(Y, constant(hy)), constant(v.cell.y)), constant(hy))
        pz == IF v.cell.z = 0 THEN Z
              ELSE sub(modulo(add(Z, constant(hz)), constant(v.cell.z)), constant(hz))
    IN  remap_xyz(v.shape, px, py, pz)

FromRepeat(v) ==
    LET hx == Half(v.cell.x)
        hy == Half(v.cell.y)
        hz == Half(v.cell.z)
        px == sub(modulo(add(X, constant(hx)), constant(v.cell.x)), constant(hx))
        py == sub(modulo(add(Y, constant(hy)), constant(v.cell.y)), constant(hy))
        pz == sub(modulo(add(Z, constant(hz)), constant(v.cell.z)), constant(hz))
    IN  remap_xyz(v.shape, px, py, pz)

(***************************************************************************)
(* Transforms.                                                             *)
(***************************************************************************)
FromMove_forward(v) ==
    remap_affine(v.shape, Translation3(v.offset.x, v.offset.y, v.offset.z))

FromMove(v) ==
    remap_affine(v.shape,
                 Translation3(0 - v.offset.x, 0 - v.offset.y, 0 - v.offset.z))

\* Tree::from, over the shape records
ToTree(v) ==
    CASE v.kind = "Circle" -> FromCircle(v)
      [] v.kind = "Rect" -> FromRect(v)
      [] v.kind = "Sphere" -> FromSphere(v)
      [] v.kind = "Cuboid" -> FromCuboid(v)
      [] v.kind = "Cylinder" -> FromCylinder(v)
      [] v.kind = "Torus" -> FromTorus(v)
      [] v.kind = "Union" -> FromUnion(v)
      [] v.kind = "Intersection" -> FromIntersection(v)
      [] v.kind = "Inverse" -> FromInverse(v)
      [] v.kind = "Difference" -> FromDifference(v)
      [] v.kind = "Round" -> FromRound(v)
      [] v.kind = "Onion" -> FromOnion(v)
      [] v.kind = "Repeat" -> FromRepeat(v)
      [] v.kind = "Move" -> FromMove(v)

(***************************************************************************)
(* State: the record being converted, the tree the conversion produced,    *)
(* and, while recurse runs step by step, its call stack.                   *)
(***************************************************************************)
VARIABLES
    rec,     \* the shape record last handed to Tree::from
    out,     \* the tree it produced
    pc,      \* "idle", or "run" / "done" for a conversion followed call by call
    stack,   \* the frames of recurse: the slice s, the stage, the left result
    ret      \* the tree the frame that just returned handed back

vars == <<rec, out, pc, stack, ret>>
reduceVars == <<pc, stack, ret>>

Init ==
    /\ rec = [kind |-> "none"]
    /\ out = NoTree
    /\ pc = "idle"
    /\ stack = <<>>
    /\ ret = NoTree

(***************************************************************************)
(* Inputs of the conversions.                                              *)
(***************************************************************************)
Origin2 == Vec2(0, 0)
Origin3 == Vec3(0, 0, 0)
Centers2 == {Origin2, Vec2(1, -1)}
Centers3 == {Origin3, Vec3(-1, 0, 1)}
Offsets == {Origin3, Vec3(1, 0, 0), Vec3(-1, 2, 0), Vec3(0, -1, 1)}
Halves == 1..MaxHalf
Radii == 1..MaxRadius

UnitSphere == FromSphere(Sphere(Origin3, 1))

\* trees the user has already converted, handed to the CSG combinators
CsgPool == {X, Y, UnitSphere}

RECURSIVE SeqsUpTo(_, _)
SeqsUpTo(S, n) ==
    IF n = 0 THEN {<<>>}
    ELSE LET shorter == SeqsUpTo(S, n - 1)
         IN  shorter \cup {Append(s, e) : s \in {q \in shorter : Len(q) = n - 1}, e \in S}

InputSeqs == SeqsUpTo(CsgPool, MaxInputs)

\* trees handed to the morphological operators
MorphPool == {UnitSphere, FromRect(Rect(Vec2(1, 0), Vec2(1, 2))), FromCircle(Circle(Vec2(0, 1), 2))}
Thicknesses == (0 - MaxThick)..MaxThick
CellSizes == {0} \cup {2 * h : h \in 1..MaxHalfCell}

RECURSIVE NegDepth(_)
NegDepth(t) == IF t.op = "neg" THEN 1 + NegDepth(t.a) ELSE 0

PrimKinds == {"Circle", "Rect", "Sphere", "Cuboid", "Cylinder", "Torus"}

AtOrigin(v) ==
    /\ v.kind \in PrimKinds
    /\ v.center \in {Origin2, Origin3}

(***************************************************************************)
(* One action per conversion: the record is built and consumed by          *)
(* Tree::from.                                                             *)
(***************************************************************************)
ConvertCircle ==
    /\ pc = "idle"
    /\ \E c \in Centers2, r \in Radii : rec' = Circle(c, r)
    /\ out' = FromCircle(rec')
    /\ UNCHANGED reduceVars

ConvertRect ==
    /\ pc = "idle"
    /\ \E c \in Centers2, hx \in Halves, hy \in Halves : rec' = Rect(c, Vec2(hx, hy))
    /\ out' = FromRect(rec')
    /\ UNCHANGED reduceVars

ConvertSphere ==
    /\ pc = "idle"
    /\ \E c \in Centers3, r \in Radii : rec' = Sphere(c, r)
    /\ out' = FromSphere(rec')
    /\ UNCHANGED reduceVars

ConvertCuboid ==
    /\ pc = "idle"
    /\ \E c \in Centers3, hx \in Halves, hy \in Halves, hz \in Halves :
           rec' = Cuboid(c, Vec3(hx, hy, hz))
    /\ out' = FromCuboid(rec')
    /\ UNCHANGED reduceVars

ConvertCylinder ==
    /\ pc = "idle"
    /\ \E c \in Centers3, r \in Radii, hh \in Halves : rec' = Cylinder(c, r, hh)
    /\ out' = FromCylinder(rec')
    /\ UNCHANGED reduceVars

ConvertTorus ==
    /\ pc = "idle"
    /\ \E c \in Centers3, R \in Halves, r \in Radii : rec' = Torus(c, R, r)
    /\ out' = FromTorus(rec')
    /\ UNCHANGED reduceVars

\* the primitive just built at the origin is moved
ConvertMove ==
    /\ pc = "idle"
    /\ AtOrigin(rec)
    /\ \E o \in Offsets : rec' = Move(out, o)
    /\ out' = FromMove(rec')
    /\ UNCHANGED reduceVars

ConvertUnion ==
    /\ pc = "idle"
    /\ \E s \in InputSeqs : rec' = Union(s)
    /\ out' = FromUnion(rec')
    /\ UNCHANGED reduceVars

ConvertIntersection ==
    /\ pc = "idle"
    /\ \E s \in InputSeqs : rec' = Intersection(s)
    /\ out' = FromIntersection(rec')
    /\ UNCHANGED reduceVars

\* a tree of the pool is inverted, or the inverse just built is inverted again
ConvertInverse ==
    /\ pc = "idle"
    /\ \/ \E t \in CsgPool : rec' = Inverse(t)
       \/ /\ rec.kind = "Inverse"
          /\ NegDepth(out) < MaxNest
          /\ rec' = Inverse(out)
    /\ out' = FromInverse(rec')
    /\ UNCHANGED reduceVars

ConvertDifference ==
    /\ pc = "idle"
    /\ \E t \in CsgPool, c \in CsgPool : rec' = Difference(t, c)
    /\ out' = FromDifference(rec')
    /\ UNCHANGED reduceVars

ConvertRound ==
    /\ pc = "idle"
    /\ \E t \in MorphPool, r \in Thicknesses : rec' = Round(t, r)
    /\ out' = FromRound(rec')
    /\ UNCHANGED reduceVars

ConvertOnion ==
    /\ pc = "idle"
    /\ \E t \in MorphPool, th \in Thicknesses : rec' = Onion(t, th)
    /\ out' = FromOnion(rec')
    /\ UNCHANGED reduceVars

ConvertRepeat ==
    /\ pc = "idle"
    /\ \E t \in MorphPool, cx \in CellSizes, cy \in CellSizes, cz \in CellSizes :
           rec' = Repeat(t, Vec3(cx, cy, cz))
    /\ out' = FromRepeat(rec')
    /\ UNCHANGED reduceVars

(***************************************************************************)
(* Union / Intersection followed call by call: From::from tests for the    *)
(* empty input and otherwise calls recurse on the whole input; recurse     *)
(* returns s[0] for a slice of length 1 and otherwise calls itself on      *)
(* s[..n/2], then on s[n/2..], and combines the two results.               *)
(***************************************************************************)
Frame(s) == [s |-> s, st |-> "enter", l |-> NoTree]
Top == stack[Len(stack)]
Pop == SubSeq(stack, 1, Len(stack) - 1)
SetTop(f) == [stack EXCEPT ![Len(stack)] = f]
Combine(kind, a, b) == IF kind = "Union" THEN min(a, b) ELSE max(a, b)
EmptyTree(kind) == IF kind = "Union" THEN constant(INF) ELSE constant(NINF)

ReduceStart ==
    /\ pc \in {"idle", "done"}
    /\ \E s \in InputSeqs, kind \in {"Union", "Intersection"} :
        /\ rec' = [kind |-> kind, input |-> s]
        /\ ret' = NoTree
        /\ IF s = <<>>
           THEN /\ out' = EmptyTree(kind)
                /\ pc' = "done"
                /\ stack' = <<>>
           ELSE /\ out' = NoTree
                /\ pc' = "run"
                /\ stack' = <<Frame(s)>>

\* match s.len() { 1 => s[0].clone(), ...
RecurseBase ==
    /\ pc = "run" /\ ret = NoTree /\ stack # <<>>
    /\ Top.st = "enter" /\ Len(Top.s) = 1
    /\ ret' = Top.s[1]
    /\ stack' = Pop
    /\ UNCHANGED <<rec, out, pc>>

\* ... n => recurse(&s[..n / 2]) ...: the call on the left half
RecurseLeft ==
    /\ pc = "run" /\ ret = NoTree /\ stack # <<>>
    /\ Top.st = "enter" /\ Len(Top.s) # 1
    /\ Len(stack) < MaxStack
    /\ stack' = Append(SetTop([Top EXCEPT !.st = "left"]),
                       Frame(SubSeq(Top.s, 1, Mid(Len(Top.s)))))
    /\ UNCHANGED <<rec, out, pc, ret>>

\* the left half returned: the call on the right half, recurse(&s[n / 2..])
RecurseRight ==
    /\ pc = "run" /\ ret # NoTree /\ stack # <<>>
    /\ Top.st = "left"
    /\ stack' = Append(SetTop([Top EXCEPT !.st = "right", !.l = ret]),
                       Frame(SubSeq(Top.s, Mid(Len(Top.s)) + 1, Len(Top.s))))
    /\ ret' = NoTree
    /\ UNCHANGED <<rec, out, pc>>

\* the right half returned: left.min(right) / left.max(right) is returned
RecurseCombine ==
    /\ pc = "run" /\ ret # NoTree /\ stack # <<>>
    /\ Top.st = "right"
    /\ ret' = Combine(rec.kind, Top.l, ret)
    /\ stack' = Pop
    /\ UNCHANGED <<rec, out, pc>>

\* the outermost call returned to From::from
ReduceFinish ==
    /\ pc = "run" /\ ret # NoTree /\ stack = <<>>
    /\ out' = ret
    /\ ret' = NoTree
    /\ pc' = "done"
    /\ UNCHANGED <<rec, stack>>

(***************************************************************************)
(* Specifications.                                                         *)
(***************************************************************************)
NextPrim ==
    \/ ConvertCircle
    \/ ConvertRect
    \/ ConvertSphere
    \/ ConvertCuboid
    \/ ConvertCylinder
    \/ ConvertTorus
    \/ ConvertMove

NextCSG ==
    \/ ConvertUnion
    \/ ConvertIntersection
    \/ ConvertInverse
    \/ ConvertDifference

NextMorph ==
    \/ ConvertRound
    \/ ConvertOnion
    \/ ConvertRepeat

NextReduce ==
    \/ ReduceStart
    \/ RecurseBase
    \/ RecurseLeft
    \/ RecurseRight
    \/ RecurseCombine
    \/ ReduceFinish

Next == NextPrim \/ NextCSG \/ NextMorph

Spec == Init /\ [][Next]_vars
SpecPrim == Init /\ [][NextPrim]_vars
SpecCSG == Init /\ [][NextCSG]_vars
SpecMorph == Init /\ [][NextMorph]_vars
\* a call that is made runs to its return: every step of recurse is taken
SpecReduce == Init /\ [][NextReduce]_vars /\ WF_vars(NextReduce)

(***************************************************************************)
(* Properties.                                                             *)
(***************************************************************************)
Cube(m) == {<<a, b, c>> : a \in (0 - m)..m, b \in (0 - m)..m, c \in (0 - m)..m}
Points == Cube(MaxCoord)
ValPoints == Cube(MaxVal)
RepPoints == Cube(MaxRep)
O3 == <<0, 0, 0>>

IsVariadic(v) == v.kind \in {"Union", "Intersection"}
CombOp(v) == IF v.kind = "Union" THEN "min" ELSE "max"

SetMin(S) == CHOOSE m \in S : \A x \in S : m <= x
SetMax(S) == CHOOSE m \in S : \A x \in S : m >= x
Extreme(kind, S) == IF kind = "Union" THEN SetMin(S) ELSE SetMax(S)

\* the leaves under the combine nodes c at the root of t, left to right
RECURSIVE Leaves(_, _)
Leaves(t, c) == IF t.op = c THEN Leaves(t.a, c) \o Leaves(t.b, c) ELSE <<t>>

\* the number of combine nodes c above the leaves
RECURSIVE CombCount(_, _)
CombCount(t, c) == IF t.op = c THEN 1 + CombCount(t.a, c) + CombCount(t.b, c) ELSE 0

\* the longest chain of combine nodes c above a leaf
RECURSIVE CombDepth(_, _)
CombDepth(t, c) ==
    IF t.op = c
    THEN LET l == CombDepth(t.a, c)
             r == CombDepth(t.b, c)
         IN  1 + (IF l > r THEN l ELSE r)
    ELSE 0

\* every combine node has floor(m/2) of its m leaves on the left
RECURSIVE SplitAtHalf(_, _)
SplitAtHalf(t, c) ==
    t.op = c =>
        /\ Len(Leaves(t.a, c)) = Len(Leaves(t, c)) \div 2
        /\ Len(Leaves(t.b, c)) = Len(Leaves(t, c)) - (Len(Leaves(t, c)) \div 2)
        /\ SplitAtHalf(t.a, c)
        /\ SplitAtHalf(t.b, c)

RECURSIVE Pow2(_)
Pow2(k) == IF k = 0 THEN 1 ELSE 2 * Pow2(k - 1)

\* ceil(log2 n): the least k with 2^k >= n
CeilLog2(n) == CHOOSE k \in 0..n : Pow2(k) >= n /\ \A j \in 0..(k - 1) : Pow2(j) < n

\* C1: converting a Union with an empty input yields the constant tree
\* +infinity and an Intersection with an empty input the constant tree
\* -infinity; the conversion returns a tree, not an error, and the constant
\* is the identity of min (resp. max): combined with any tree it evaluates
\* to that tree's value at every point.
C1_EmptyInput ==
    (IsVariadic(rec) /\ rec.input = <<>>) =>
        /\ IsTree(out)
        /\ ~IsError(out)
        /\ rec.kind = "Union" => out = constant(INF)
        /\ rec.kind = "Intersection" => out = constant(NINF)
        /\ \A t \in CsgPool \cup {constant(INF), constant(NINF), constant(0)}, p \in ValPoints :
               /\ Eval(Combine(rec.kind, out, t), p) = Eval(t, p)
               /\ Eval(Combine(rec.kind, t, out), p) = Eval(t, p)

C1_Witness ==
    /\ rec.kind = "Union"
    /\ rec.input = <<>>
    /\ out = constant(INF)
    /\ Eval(min(out, UnitSphere), O3) = 0 - 1

\* C2: for n >= 1 inputs the tree of Union (Intersection) splits the
\* sequence at floor(n/2): the left subtree is the reduction of the first
\* floor(n/2) inputs and the right subtree that of the rest, at every
\* combine node; the depth in combine nodes above the inputs is ceil(log2 n).
C2_BalancedSplit ==
    (IsVariadic(rec) /\ Len(rec.input) >= 1) =>
        LET n == Len(rec.input)
            c == CombOp(rec)
        IN  /\ SplitAtHalf(out, c)
            /\ n >= 2 =>
                /\ out.op = c
                /\ Leaves(out.a, c) = SubSeq(rec.input, 1, n \div 2)
                /\ Leaves(out.b, c) = SubSeq(rec.input, (n \div 2) + 1, n)
                /\ out.a = ToTree([rec EXCEPT !.input = SubSeq(rec.input, 1, n \div 2)])
                /\ out.b = ToTree([rec EXCEPT !.input = SubSeq(rec.input, (n \div 2) + 1, n)])
            /\ CombDepth(out, c) = CeilLog2(n)

C2_Witness ==
    /\ rec.kind = "Intersection"
    /\ Len(rec.input) = 3
    /\ out.op = "max"
    /\ Leaves(out.a, "max") = <<rec.input[1]>>
    /\ Leaves(out.b, "max") = <<rec.input[2], rec.input[3]>>
    /\ CombDepth(out, "max") = 2

SwapAt(s, i) == [s EXCEPT ![i] = s[i + 1], ![i + 1] = s[i]]

\* C3: for a non-empty input the Union tree evaluates to the minimum of the
\* inputs' values at every point and the Intersection tree to their
\* maximum; exchanging two neighbouring inputs, or grouping the inputs into
\* two nested combinators at any place, leaves the value unchanged; a
\* one-element input yields the input itself.
C3_MinMaxOfInputs ==
    (IsVariadic(rec) /\ Len(rec.input) >= 1) =>
        LET s == rec.input
            n == Len(s)
        IN  /\ n = 1 => out = s[1]
            /\ \A p \in ValPoints :
                /\ Eval(out, p) = Extreme(rec.kind, {Eval(s[i], p) : i \in 1..n})
                /\ \A i \in 1..(n - 1) :
                    /\ Eval(ToTree([rec EXCEPT !.input = SwapAt(s, i)]), p) = Eval(out, p)
                    /\ Eval(ToTree([rec EXCEPT !.input =
                                 <<ToTree([rec EXCEPT !.input = SubSeq(s, 1, i)]),
                                   ToTree([rec EXCEPT !.input = SubSeq(s, i + 1, n)])>>]), p)
                           = Eval(out, p)

C3_Witness ==
    /\ rec.kind = "Union"
    /\ Len(rec.input) = 3
    /\ \E p \in ValPoints :
        /\ Eval(rec.input[3], p) < Eval(rec.input[1], p)
        /\ Eval(rec.input[3], p) < Eval(rec.input[2], p)
        /\ Eval(out, p) = Eval(rec.input[3], p)

\* C7: the tree of Inverse{S} evaluates to the negation of S's value at
\* every point, and inverting twice gives back the value of S.
C7_InverseNegates ==
    rec.kind = "Inverse" =>
        \A p \in ValPoints :
            LET v == Eval(rec.shape, p)
            IN  /\ IsFinite(v)
                /\ Eval(out, p) + v = 0
                /\ Eval(FromInverse(Inverse(out)), p) = v
                /\ rec.shape.op = "neg" => Eval(out, p) = Eval(rec.shape.a, p)

C7_Witness ==
    /\ rec.kind = "Inverse"
    /\ rec.shape = neg(UnitSphere)
    /\ out # UnitSphere
    /\ Eval(out, O3) = 0 - 1

\* the record of a primitive with its centre moved to o
Recentred(v, o) ==
    IF v.kind \in {"Circle", "Rect"}
    THEN [v EXCEPT !.center = Vec2(o.x, o.y)]
    ELSE [v EXCEPT !.center = o]

OriginPrims ==
    {Circle(Origin2, r) : r \in Radii}
        \cup {Rect(Origin2, Vec2(hx, hy)) : hx \in Halves, hy \in Halves}
        \cup {Sphere(Origin3, r) : r \in Radii}
        \cup {Cuboid(Origin3, Vec3(hx, hy, hz)) : hx \in Halves, hy \in Halves, hz \in Halves}
        \cup {Cylinder(Origin3, r, hh) : r \in Radii, hh \in Halves}
        \cup {Torus(Origin3, R, r) : R \in Halves, r \in Radii}

\* C6: Move of a primitive built at the origin, by offset v, evaluates at
\* every point p to the value of the same primitive built with centre v;
\* Move evaluates its shape at p - v on every axis.
C6_MoveIsRecentre ==
    rec.kind = "Move" =>
        LET o == rec.offset
            s == CHOOSE q \in OriginPrims : ToTree(q) = rec.shape
        IN  /\ \E q \in OriginPrims : ToTree(q) = rec.shape
            /\ \A p \in Points :
                /\ Eval(out, p) = Eval(rec.shape, <<p[1] - o.x, p[2] - o.y, p[3] - o.z>>)
                /\ Eval(out, p) = Eval(ToTree(Recentred(s, o)), p)

C6_Witness ==
    /\ rec.kind = "Move"
    /\ rec.shape = FromCuboid(Cuboid(Origin3, Vec3(1, 2, 1)))
    /\ rec.offset = Vec3(-1, 2, 0)
    /\ Eval(out, <<-1, 2, 0>>) = 0 - 1
    /\ Eval(out, O3) = 0
    /\ Eval(out, <<1, 2, 0>>) = 1

Abs(a) == IF a < 0 THEN 0 - a ELSE a
Pos(a) == IF a > 0 THEN a ELSE 0
AxesOf(v) == IF v.kind = "Rect" THEN {1, 2} ELSE {1, 2, 3}
CenterAt(v, i) == IF i = 1 THEN v.center.x ELSE IF i = 2 THEN v.center.y ELSE v.center.z
HalfAt(v, i) == IF i = 1 THEN v.half_size.x ELSE IF i = 2 THEN v.half_size.y ELSE v.half_size.z

\* d_i = |p_i - c_i| - h_i
BoxD(v, p, i) == Abs(p[i] - CenterAt(v, i)) - HalfAt(v, i)

\* the distance from p_i to the interval [c_i - h_i, c_i + h_i]
GapAt(v, p, i) ==
    LET lo == CenterAt(v, i) - HalfAt(v, i)
        hi == CenterAt(v, i) + HalfAt(v, i)
    IN  IF p[i] < lo THEN lo - p[i] ELSE IF p[i] > hi THEN p[i] - hi ELSE 0

RECURSIVE SumOver(_, _, _, _)
SumOver(F(_, _, _), v, p, I) ==
    IF I = {} THEN 0
    ELSE LET i == CHOOSE j \in I : TRUE
         IN  F(v, p, i) + SumOver(F, v, p, I \ {i})

SqPos(v, p, i) == Pos(BoxD(v, p, i)) * Pos(BoxD(v, p, i))
SqGap(v, p, i) == GapAt(v, p, i) * GapAt(v, p, i)

\* r is the square root of n on the integer grid
IsRoot(r, n) == r >= 0 /\ r * r <= n /\ n < (r + 1) * (r + 1)

\* C9: for Rect and Cuboid with positive half sizes and
\* d_i = |p_i - c_i| - h_i, the tree's value is
\* sqrt(sum of max(d_i,0)^2) + min(max_i d_i, 0); it is negative and equal to
\* max_i d_i strictly inside the box, zero on the boundary, and positive and
\* equal to the Euclidean distance to the box outside (Rect half (1,2): -1 at
\* (0,0), 1 at (2,0), 1 at (0,3); Cuboid half (1,2,3): 1 at (0,0,4)).
C9_BoxDistance ==
    /\ rec.kind \in {"Rect", "Cuboid"} =>
        \A p \in Points :
            LET v == Eval(out, p)
                I == AxesOf(rec)
                maxd == SetMax({BoxD(rec, p, i) : i \in I})
                inside == IF maxd < 0 THEN maxd ELSE 0
            IN  /\ IsRoot(v - inside, SumOver(SqPos, rec, p, I))
                /\ maxd < 0 => (v < 0 /\ v = maxd)
                /\ maxd = 0 => v = 0
                /\ maxd > 0 => (v > 0 /\ IsRoot(v, SumOver(SqGap, rec, p, I)))
    /\ rec = Rect(Origin2, Vec2(1, 2)) =>
        /\ Eval(out, O3) = 0 - 1
        /\ Eval(out, <<2, 0, 0>>) = 1
        /\ Eval(out, <<0, 3, 0>>) = 1
    /\ LET cuboid == FromCuboid(Cuboid(Origin3, Vec3(1, 2, 3)))
       IN  /\ Eval(cuboid, O3) = 0 - 1
           /\ Eval(cuboid, <<2, 0, 0>>) = 1
           /\ Eval(cuboid, <<0, 0, 4>>) = 1

C9_Witness ==
    /\ rec = Rect(Origin2, Vec2(1, 2))
    /\ Eval(out, <<0, 3, 0>>) = 1
    /\ Eval(out, <<0, 1, 0>>) = 0 - 1
    /\ Eval(out, <<1, -2, 0>>) = 0
    /\ Eval(out, <<-4, 6, 0>>) = 5

\* the coordinate Repeat substitutes on axis i, and the cell on that axis
CoordTree(t, i) == IF i = 1 THEN t.x ELSE IF i = 2 THEN t.y ELSE t.z
CellAt(v, i) == IF i = 1 THEN v.cell.x ELSE IF i = 2 THEN v.cell.y ELSE v.cell.z
Shifted(p, i, d) == [p EXCEPT ![i] = p[i] + d]
Shifts == (0 - MaxShift)..MaxShift

\* C4 (as stated): if a component of Repeat's cell is zero, the conversion
\* reports an error or passes the coordinate on that axis to the shape
\* unchanged.
C4_ZeroCellErrorOrIdentity ==
    rec.kind = "Repeat" =>
        \A i \in 1..3 :
            CellAt(rec, i) = 0 =>
                \/ IsError(out)
                \/ \A p \in RepPoints : Eval(CoordTree(out, i), p) = p[i]

\* C4 (amended): if a component of Repeat's cell is zero, the conversion
\* reports no error and makes no exception for that axis: it substitutes the
\* same expression (axis + 0) mod 0 - 0 as for any other cell, whose value
\* is undefined (NaN) at every point.
C4_ZeroCellUndefined ==
    rec.kind = "Repeat" =>
        \A i \in 1..3 :
            CellAt(rec, i) = 0 =>
                /\ IsTree(out)
                /\ ~IsError(out)
                /\ CoordTree(out, i) =
                       sub(modulo(add(axes[i], constant(0)), constant(0)), constant(0))
                /\ \A p \in RepPoints : Eval(CoordTree(out, i), p) = NaN

C4_Witness ==
    /\ rec = Repeat(UnitSphere, Vec3(0, 4, 4))
    /\ out.op = "remap"
    /\ Eval(out.x, <<1, 0, 0>>) = NaN
    /\ Eval(out.y, <<1, 0, 0>>) = 0
    /\ Eval(out, <<1, 0, 0>>) = NaN

\* C5: for Repeat with every cell component positive, the coordinate
\* substituted on each axis is (p + cell/2) mod cell - cell/2; it lies in
\* [-cell/2, cell/2), is 0 at every multiple of cell and does not change
\* when p moves by a multiple of cell; the repeated field has the same value
\* at p and at p + k*cell on each axis and equals the shape's value inside
\* the cell centred on the origin (unit sphere, cell (4,4,4): -1 at (0,0,0),
\* 0 at (3,0,0)).
C5_RepeatPeriodic ==
    (rec.kind = "Repeat" /\ \A i \in 1..3 : CellAt(rec, i) > 0) =>
        /\ \A p \in RepPoints :
            /\ \A i \in 1..3 :
                LET cell == CellAt(rec, i)
                    c == Eval(CoordTree(out, i), p)
                IN  /\ 2 * c = 2 * ((p[i] + Half(cell)) % cell) - cell
                    /\ 0 - cell <= 2 * c
                    /\ 2 * c < cell
                    /\ p[i] % cell = 0 => c = 0
                    /\ \A k \in Shifts :
                        /\ Eval(CoordTree(out, i), Shifted(p, i, k * cell)) = c
                        /\ Eval(out, Shifted(p, i, k * cell)) = Eval(out, p)
            /\ (\A i \in 1..3 : 0 - CellAt(rec, i) <= 2 * p[i] /\ 2 * p[i] < CellAt(rec, i))
                   => Eval(out, p) = Eval(rec.shape, p)
        /\ rec = Repeat(UnitSphere, Vec3(4, 4, 4)) =>
            /\ Eval(out, O3) = 0 - 1
            /\ Eval(out, <<3, 0, 0>>) = 0

C5_Witness ==
    /\ rec = Repeat(UnitSphere, Vec3(4, 4, 4))
    /\ Eval(out, <<3, 0, 0>>) = 0
    /\ Eval(out, <<4, 0, 0>>) = 0 - 1
    /\ Eval(out.x, <<2, 0, 0>>) = 0 - 2
    /\ Eval(rec.shape, <<3, 0, 0>>) = 2

\* C8 (as stated): for every thickness t the tree of Onion{S,t} evaluates to
\* |eval(S,p)| - t and its zero-set is exactly the set of points where
\* eval(S,p) = t or eval(S,p) = -t.
C8_OnionZeroSetAnyThickness ==
    rec.kind = "Onion" =>
        \A p \in RepPoints :
            LET v == Eval(rec.shape, p)
                t == rec.thickness
            IN  /\ Eval(out, p) = Abs(v) - t
                /\ (Eval(out, p) = 0) <=> (v = t \/ v = 0 - t)

\* C8 (amended): the tree of Onion{S,t} evaluates to |eval(S,p)| - t; for
\* t >= 0 its zero-set is exactly the set of points where eval(S,p) = t or
\* eval(S,p) = -t, and for t < 0 its zero-set is empty.
C8_OnionZeroSet ==
    rec.kind = "Onion" =>
        \A p \in RepPoints :
            LET v == Eval(rec.shape, p)
                t == rec.thickness
            IN  /\ IsFinite(v)
                /\ Eval(out, p) = Abs(v) - t
                /\ t >= 0 => ((Eval(out, p) = 0) <=> (v = t \/ v = 0 - t))
                /\ t < 0 => Eval(out, p) # 0

C8_Witness ==
    /\ rec = Onion(UnitSphere, 1)
    /\ Eval(rec.shape, O3) = 0 - 1
    /\ Eval(out, O3) = 0
    /\ Eval(rec.shape, <<2, 0, 0>>) = 1
    /\ Eval(out, <<2, 0, 0>>) = 0
    /\ Eval(out, <<1, 0, 0>>) = 0 - 1

\* C10: in the reduction of a sequence of n >= 1 inputs recurse is never
\* called on an empty slice, every call is on a slice strictly shorter than
\* its caller's, the reduction terminates, and the finished tree has the n
\* inputs as its leaves, each once and in their order, under n - 1 combine
\* nodes.
C10_Frames ==
    /\ \A i \in 1..Len(stack) : Len(stack[i].s) >= 1
    /\ \A i \in 2..Len(stack) : Len(stack[i].s) < Len(stack[i - 1].s)
    /\ Len(stack) < MaxStack
    /\ (pc = "done" /\ rec.input # <<>>) =>
        /\ IsTree(out)
        /\ Leaves(out, CombOp(rec)) = rec.input
        /\ Len(Leaves(out, CombOp(rec))) = Len(rec.input)
        /\ CombCount(out, CombOp(rec)) = Len(rec.input) - 1
        /\ out = ToTree(rec)

C10_Reduction == []C10_Frames /\ ((pc = "run") ~> (pc = "done"))

C10_Witness ==
    /\ pc = "done"
    /\ rec.kind = "Union"
    /\ Len(rec.input) = 3
    /\ rec.input[1] # rec.input[2]
    /\ Leaves(out, "min") = rec.input
    /\ CombCount(out, "min") = 2

====
